---- MODULE Spec2Model ----
(***************************************************************************)
(* A model of the neohub client (src/src/lib.rs): the Builder, the Client  *)
(* session that owns one websocket stream, the timeout-bounded exchange    *)
(* raw_message / raw_message_inner, the typed helpers built on it, and     *)
(* disconnect.  The hub and the network are the environment: they answer   *)
(* command frames, send frames of their own, and end or break the stream.  *)
(* Time is counted in seconds and passes in ticks of TickSecs seconds.      *)
(***************************************************************************)
EXTENDS Integers, Sequences, FiniteSets, TLC

(* ------------------------------ bounds -------------------------------- *)

\* Exchanges one session may start.
MaxExchanges == 2
\* Frames the hub may send that answer no command of this session.
MaxJunk == 1
\* Largest Duration, in ticks of the clock, a caller hands to Builder::timeout.
MaxTimeoutArg == 1
\* Longest token, command name, argument or raw command the codec is run on.
MaxLen == 1

(* ------------------------- program constants -------------------------- *)

\* Duration::from_secs(15) of Client::build.
DefaultTimeout == 15
\* Seconds in one tick of the clock: the default timeout is three ticks.
TickSecs == DefaultTimeout \div 3
\* The COMMANDID every outbound command carries.
COMMANDID == 1
\* The command_id the ensure! of raw_message_inner asks of a reply.
ExpectedCommandId == 1

OutboundType == "hm_get_command_queue"
ExpectedType == "hm_set_command_response"
OtherType == "hm_other"

(* ------------------------------ inputs -------------------------------- *)

None == "none"

\* Texts are sequences of symbols. The characters the codecs look at (quotes,
\* backslash, braces, brackets, colon, comma, digits) are symbols of their own;
\* a run of other characters may stand as one symbol.
NoText == <<>>
QUOTE == "\""
BACKSLASH == "\\"

\* What std::env::var finds for a key: a text, or nothing.
EnvSet(text) == [set |-> TRUE, text |-> text]
Missing == [set |-> FALSE, text |-> NoText]

Urls == {<<"wss://hub">>}
Tokens == {<<"t1">>}
EnvUrls == {EnvSet(u) : u \in Urls} \cup {Missing}
EnvTokens == {EnvSet(t) : t \in Tokens} \cup {Missing}
TimeoutArgs == {k * TickSecs : k \in 0..MaxTimeoutArg}
DeviceIds == {"00:11"}

FIRMWARE == <<"F", "I", "R", "M", "W", "A", "R", "E">>
CommandNames == {<<"A">>}
CommandArgs == {<<"w">>}
RawMsgs == {<<"m">>}

\* The texts the codec is run on: every text of at most MaxLen symbols over a
\* letter, the single quote, the double quote and the backslash.
Alphabet == {"a", "'", QUOTE, BACKSLASH}
CodecTexts == UNION {[1..n -> Alphabet] : n \in 0..MaxLen}

\* The response strings a hub puts in a reply: a JSON object with a string
\* "firmware version" field, a JSON object without it, and text that is no JSON.
FwResponse ==
    <<"{", QUOTE, "firmware version", QUOTE, ":", QUOTE, "1.2.3", QUOTE, "}">>
NoFwResponse == <<"{", "}">>
NotJsonResponse == <<"not json">>
Responses == {FwResponse, NoFwResponse, NotJsonResponse}
\* The caller's result type T of a typed helper: serde_json::Value, which takes
\* any JSON text.
ResultTypes == {"Value"}

(* ----------------------------- variables ------------------------------ *)

VARIABLES
    phase,      \* Start | Unconnected | Connected | Closing | Closed | Failed
    builder,    \* the Builder's fields (NoBuilder when there is none)
    client,     \* the Client's token and timeout (NoClient when there is none)
    stream,     \* the websocket stream as the client sees it: open | failed
    sendbuf,    \* frames fed to the sink and not yet flushed
    wire,       \* commands the hub has received and not yet answered
    inbound,    \* frames that reached the client and were not yet read
    pc,         \* position of raw_message_inner: idle | feed | flush | recv
    cur,        \* the call in progress
    active,     \* live raw_message futures, each holding &mut self
    total,      \* seconds since the timeout-bounded operation in progress began
    stepStart,  \* value of total when the current suspension point was reached
    fed,        \* frames the exchange in progress has fed
    reads,      \* frames the exchange in progress has read
    closeState, \* the close handshake of disconnect: idle | pending | ok | err
    nSeq,       \* exchanges started so far
    nJunk,      \* unsolicited frames sent so far
    attempts,   \* connection attempts made so far
    outcome     \* what the operation that has just returned handed to its
                \* caller (NoOutcome once the hub or the network has moved on)

vars == <<phase, builder, client, stream, sendbuf, wire, inbound, pc, cur,
          active, total, stepStart, fed, reads, closeState, nSeq,
          nJunk, attempts, outcome>>

connVars == <<stream, sendbuf, wire, inbound>>
clockVars == <<total, stepStart>>
callVars == <<pc, cur, active, fed, reads>>

(* ------------------------------ values -------------------------------- *)

NoFrame == [parses |-> FALSE, command_id |-> -1, device_id |-> None,
            message_type |-> None, response |-> NoText, replyTo |-> -1]

NoErr == [ctx |-> <<>>, src |-> None, payload |-> None]

NoCall == [seq |-> 0, op |-> None, command |-> NoText, arg |-> NoText,
           msg |-> NoText, T |-> None]

NoValue == <<>>

\* An Option<String>: no element for None, the text for Some.
Absent == <<>>
Some(text) == <<text>>

NoTyped == [kind |-> None, device_id |-> None, firmware_version |-> Absent,
            data |-> NoText]

\* (arg: the Duration handed to Builder::timeout; url: the URL connect opened.)
NoOutcome == [op |-> None, seq |-> 0, arg |-> -1, url |-> NoText,
              ok |-> FALSE, value |-> NoValue,
              typed |-> NoTyped, err |-> NoErr, frame |-> NoFrame,
              endPc |-> None, endStream |-> None, endClose |-> None,
              total |-> 0, stepStart |-> 0, fed |-> 0, reads |-> 0]

Err(ctx, src, payload) == [ctx |-> ctx, src |-> src, payload |-> payload]

(* ------------------------- Builder / lifecycle ------------------------ *)

\* Client::build leaving the timeout at Duration::default().
build_no_timeout(url, token) == [url |-> url, token |-> token, timeout |-> 0]

\* Client::build
build(url, token) == [url |-> url, token |-> token, timeout |-> DefaultTimeout]

\* env_var falling back to the empty string when the variable is not set.
env_var_or_default(key, value) ==
    [ok |-> TRUE, value |-> value.text, err |-> NoErr]

\* env_var: the value, or an error naming the key
env_var(key, value) ==
    IF ~value.set
    THEN [ok |-> FALSE, value |-> NoText,
          err |-> Err(<<"env var required", key>>, "VarError", None)]
    ELSE [ok |-> TRUE, value |-> value.text, err |-> NoErr]

NoBuilder == [url |-> NoText, token |-> NoText, timeout |-> 0]

NoClient == [token |-> NoText, timeout |-> 0]

\* Client::from_env, the environment holding u for NEOHUB_URL and t for
\* NEOHUB_TOKEN: the first `?` that fails returns, else the Builder is built.
from_env(u, t) ==
    LET url == env_var("NEOHUB_URL", u)
        token == env_var("NEOHUB_TOKEN", t)
    IN  IF ~url.ok THEN [ok |-> FALSE, builder |-> NoBuilder, err |-> url.err]
        ELSE IF ~token.ok THEN [ok |-> FALSE, builder |-> NoBuilder, err |-> token.err]
        ELSE [ok |-> TRUE, builder |-> build(url.value, token.value), err |-> NoErr]

Init ==
    /\ phase = "Start"
    /\ builder = NoBuilder
    /\ client = NoClient
    /\ stream = "none"
    /\ sendbuf = <<>>
    /\ wire = <<>>
    /\ inbound = <<>>
    /\ pc = "idle"
    /\ cur = NoCall
    /\ active = 0
    /\ total = 0
    /\ stepStart = 0
    /\ fed = 0
    /\ reads = 0
    /\ closeState = "idle"
    /\ nSeq = 0
    /\ nJunk = 0
    /\ attempts = 0
    /\ outcome = NoOutcome

\* Client::build(url, token)
Build ==
    /\ phase = "Start"
    /\ \E u \in Urls, t \in Tokens : builder' = build(u, t)
    /\ phase' = "Unconnected"
    /\ outcome' = [NoOutcome EXCEPT !.op = "build", !.ok = TRUE]
    /\ UNCHANGED <<client, connVars, callVars, clockVars, closeState, nSeq,
                   nJunk, attempts>>

\* Client::from_env(), the two environment values being u and t
FromEnv ==
    /\ phase = "Start"
    /\ \E u \in EnvUrls, t \in EnvTokens :
         LET r == from_env(u, t)
         IN  IF ~r.ok
             THEN /\ outcome' = [NoOutcome EXCEPT !.op = "from_env", !.err = r.err]
                  /\ UNCHANGED <<phase, builder>>
             ELSE /\ builder' = r.builder
                  /\ phase' = "Unconnected"
                  /\ outcome' = [NoOutcome EXCEPT !.op = "from_env", !.ok = TRUE]
    /\ UNCHANGED <<client, connVars, callVars, clockVars, closeState, nSeq,
                   nJunk, attempts>>

\* Builder::timeout(d)
BuilderTimeout ==
    /\ phase = "Unconnected"
    /\ \E d \in TimeoutArgs :
         /\ builder' = [builder EXCEPT !.timeout = d]
         /\ outcome' = [NoOutcome EXCEPT !.op = "timeout", !.ok = TRUE, !.arg = d]
    /\ UNCHANGED <<phase, client, connVars, callVars, clockVars, closeState,
                   nSeq, nJunk, attempts>>

\* Builder::connect when connect(&self.url) returns the open stream
ConnectOk ==
    /\ phase = "Unconnected"
    /\ attempts' = attempts + 1
    /\ client' = [token |-> builder.token, timeout |-> builder.timeout]
    /\ builder' = NoBuilder
    /\ phase' = "Connected"
    /\ stream' = "open"
    /\ outcome' = [NoOutcome EXCEPT !.op = "connect", !.ok = TRUE,
                                     !.url = builder.url]
    /\ UNCHANGED <<sendbuf, wire, inbound, callVars, clockVars, closeState,
                   nSeq, nJunk>>

\* Builder::connect trying again after a failed attempt.
ConnectAgain == "Unconnected"

\* The phase once connect(&self.url) has failed: the `?` returns the error to
\* the caller, the Builder having been moved into the call.
AfterConnectError == "Failed"

\* Builder::connect when connect(&self.url) fails: the `?` returns the error
ConnectFail ==
    /\ phase = "Unconnected"
    /\ attempts' = attempts + 1
    /\ builder' = NoBuilder
    /\ phase' = AfterConnectError
    /\ outcome' = [NoOutcome EXCEPT !.op = "connect", !.url = builder.url,
                     !.err = Err(<<>>, "tungstenite::Error", None)]
    /\ UNCHANGED <<client, connVars, callVars, clockVars, closeState, nSeq, nJunk>>

(* --------------------------- envelope codec --------------------------- *)

\* serialise_void
serialise_void(command) == <<"{", "'">> \o command \o <<"'", ":", "0", "}">>

\* the format! of command_str
format_str(command, arg) ==
    <<"{", "'">> \o command \o <<"'", ":", "'">> \o arg \o <<"'", "}">>

\* JSON values (serde_json::Value): a string, a number, an object of keyed
\* members, an array of elements.
JStr(t) == [kind |-> "str", text |-> t, num |-> 0, items |-> <<>>]
JNum(n) == [kind |-> "num", text |-> NoText, num |-> n, items |-> <<>>]
JObj(members) == [kind |-> "obj", text |-> NoText, num |-> 0, items |-> members]
JArr(elems) == [kind |-> "arr", text |-> NoText, num |-> 0, items |-> elems]
JNone == [kind |-> None, text |-> NoText, num |-> 0, items |-> <<>>]
Item(key, val) == [key |-> key, val |-> val]
Elem(val) == Item(NoText, val)

\* The member `key` of the object v, JNone when v is no object or has none.
Member(v, key) ==
    IF v.kind = "obj" /\ \E i \in 1..Len(v.items) : v.items[i].key = key
    THEN v.items[CHOOSE i \in 1..Len(v.items) : v.items[i].key = key].val
    ELSE JNone

Digits == <<"0", "1", "2", "3", "4", "5", "6", "7", "8", "9">>

\* serde_json writing the inside of a string: quote and backslash are escaped.
\* (The text is written half by half.)
RECURSIVE json_escape(_)
json_escape(t) ==
    IF t = <<>> THEN <<>>
    ELSE IF Len(t) = 1
    THEN (IF t[1] \in {QUOTE, BACKSLASH} THEN <<BACKSLASH, t[1]>> ELSE t)
    ELSE LET h == Len(t) \div 2
         IN  json_escape(SubSeq(t, 1, h)) \o json_escape(SubSeq(t, h + 1, Len(t)))

json_string(t) == <<QUOTE>> \o json_escape(t) \o <<QUOTE>>

\* serde_json::to_string of a Value: compact text, the members of an object in
\* the order the Value holds them.
RECURSIVE to_string(_), to_string_items(_, _)
to_string(v) ==
    CASE v.kind = "str" -> json_string(v.text)
      [] v.kind = "num" -> <<Digits[v.num + 1]>>
      [] v.kind = "obj" -> <<"{">> \o to_string_items(v.items, TRUE) \o <<"}">>
      [] OTHER -> <<"[">> \o to_string_items(v.items, FALSE) \o <<"]">>

to_string_items(items, keyed) ==
    IF items = <<>> THEN <<>>
    ELSE (IF keyed THEN json_string(Head(items).key) \o <<":">> ELSE <<>>)
         \o to_string(Head(items).val)
         \o (IF Len(items) > 1 THEN <<",">> ELSE <<>>)
         \o to_string_items(Tail(items), keyed)

NoParse == [ok |-> FALSE, val |-> JNone, next |-> 0]
NoParsedText == [ok |-> FALSE, text |-> NoText, next |-> 0]

\* The length of the run of backslashes of s that ends at p and starts at i
\* or later.
RECURSIVE BackslashRun(_, _, _)
BackslashRun(s, i, p) ==
    IF p < i \/ s[p] # BACKSLASH THEN 0 ELSE 1 + BackslashRun(s, i, p - 1)

\* In the string literal of s that starts at i, position p holds a backslash
\* that escapes the symbol after it: the run of backslashes it ends is odd.
Escaping(s, i, p) == BackslashRun(s, i, p) % 2 = 1

\* The symbols of s from a to b that are no escaping backslash of the literal
\* that starts at i.
RECURSIVE Unescaped(_, _, _, _)
Unescaped(s, i, a, b) ==
    IF a > b THEN <<>>
    ELSE IF a = b THEN (IF Escaping(s, i, a) THEN <<>> ELSE <<s[a]>>)
    ELSE LET m == (a + b) \div 2
         IN  Unescaped(s, i, a, m) \o Unescaped(s, i, m + 1, b)

\* The quotes of s at i or later that no backslash of the literal that starts
\* at i escapes.
LiteralEnds(s, i) ==
    {p \in i..Len(s) : s[p] = QUOTE /\ ~(p > i /\ Escaping(s, i, p - 1))}

Least(ends) == CHOOSE p \in ends : \A q \in ends : p <= q

\* The text of the literal of s that starts at i and whose closing quote is at
\* j: a backslash in it escapes a quote or a backslash.
Literal(s, i, j) ==
    IF \A p \in i..(j - 1) : Escaping(s, i, p) => s[p + 1] \in {QUOTE, BACKSLASH}
    THEN [ok |-> TRUE, text |-> Unescaped(s, i, i, j - 1), next |-> j + 1]
    ELSE NoParsedText

LiteralUpTo(s, i, ends) ==
    IF ends = {} THEN NoParsedText ELSE Literal(s, i, Least(ends))

\* The text of the JSON string literal of s whose opening quote is right
\* before position i, and the position after its closing quote: the literal
\* ends at the first quote that is not escaped.
from_str_text(s, i) == LiteralUpTo(s, i, LiteralEnds(s, i))

\* The string value of a literal that was read.
StrValue(r) ==
    IF r.ok THEN [ok |-> TRUE, val |-> JStr(r.text), next |-> r.next] ELSE NoParse

\* The JSON value of s that starts at position i, and the position after it.
RECURSIVE from_str_value(_, _), from_str_items(_, _, _, _)
RECURSIVE from_str_member(_, _, _, _), from_str_rest(_, _, _, _, _)
from_str_value(s, i) ==
    IF i > Len(s) THEN NoParse
    ELSE IF s[i] = QUOTE
    THEN StrValue(from_str_text(s, i + 1))
    ELSE IF \E d \in 1..10 : Digits[d] = s[i]
    THEN [ok |-> TRUE, val |-> JNum((CHOOSE d \in 1..10 : Digits[d] = s[i]) - 1),
          next |-> i + 1]
    ELSE IF s[i] \in {"{", "["}
    THEN LET keyed == s[i] = "{"
         IN  IF i + 1 <= Len(s) /\ s[i + 1] = (IF keyed THEN "}" ELSE "]")
             THEN [ok |-> TRUE, val |-> IF keyed THEN JObj(<<>>) ELSE JArr(<<>>),
                   next |-> i + 2]
             ELSE from_str_items(s, i + 1, keyed, <<>>)
    ELSE NoParse

\* The key of the member of an object that starts at position i of s; an
\* element of an array has none.
from_str_key(s, i, keyed) ==
    IF keyed
    THEN IF i <= Len(s) /\ s[i] = QUOTE
         THEN from_str_text(s, i + 1)
         ELSE NoParsedText
    ELSE [ok |-> TRUE, text |-> NoText, next |-> i]

\* The members of an object (keyed) or the elements of an array of s from
\* position i on, acc holding those before i.
from_str_items(s, i, keyed, acc) ==
    from_str_member(s, keyed, acc, from_str_key(s, i, keyed))

\* The same, the key k of the member having been read: a colon and the value.
from_str_member(s, keyed, acc, k) ==
    from_str_rest(s, keyed, acc, k,
                  IF k.ok /\ (~keyed \/ (k.next <= Len(s) /\ s[k.next] = ":"))
                  THEN from_str_value(s, IF keyed THEN k.next + 1 ELSE k.next)
                  ELSE NoParse)

\* The same, the value v of the member having been read: a comma and the
\* members left, or the closing bracket.
from_str_rest(s, keyed, acc, k, v) ==
    IF ~v.ok \/ v.next > Len(s) THEN NoParse
    ELSE IF s[v.next] = ","
    THEN from_str_items(s, v.next + 1, keyed, Append(acc, Item(k.text, v.val)))
    ELSE IF s[v.next] = (IF keyed THEN "}" ELSE "]")
    THEN [ok |-> TRUE,
          val |-> IF keyed THEN JObj(Append(acc, Item(k.text, v.val)))
                  ELSE JArr(Append(acc, Item(k.text, v.val))),
          next |-> v.next + 1]
    ELSE NoParse

\* The value read when it takes the whole of s, JNone otherwise.
WholeText(s, r) == IF r.ok /\ r.next = Len(s) + 1 THEN r.val ELSE JNone

\* serde_json::from_str::<Value>: the value of the compact JSON text s,
\* JNone when s is no JSON text.
from_str(s) == WholeText(s, from_str_value(s, 1))

\* The json! value `middle` of raw_message_inner: token and one command.
Middle(token, msg) ==
    JObj(<<Item(<<"COMMANDS">>,
                JArr(<<Elem(JObj(<<Item(<<"COMMAND">>, JStr(msg)),
                                   Item(<<"COMMANDID">>, JNum(COMMANDID))>>))>>)),
           Item(<<"token">>, JStr(token))>>)

\* The outer envelope with the inner message left a nested object.
EnvelopeNested(token, msg) ==
    to_string(JObj(<<Item(<<"message">>, Middle(token, msg)),
                     Item(<<"message_type">>, JStr(<<OutboundType>>))>>))

\* The outbound frame of raw_message_inner, `to_send`: the text of the outer
\* envelope, whose message is the text of `middle`.
Envelope(token, msg) ==
    to_string(JObj(<<Item(<<"message">>, JStr(to_string(Middle(token, msg)))),
                     Item(<<"message_type">>, JStr(<<OutboundType>>))>>))

\* The ensure! with `||` where the code has `&&`.
AcceptsEither(resp) ==
    resp.message_type = ExpectedType \/ resp.command_id = ExpectedCommandId

\* The ensure! without its test of command_id.
AcceptsTypeOnly(resp) == resp.message_type = ExpectedType

\* The ensure! of raw_message_inner on a decoded CommandResponse.
Accepts(resp) ==
    resp.message_type = ExpectedType /\ resp.command_id = ExpectedCommandId

\* The JSON value of each response text a hub of the model sends, as
\* serde_json::from_str reads it.
ResponseValues == [r \in Responses |-> from_str(r)] @@ <<>>

\* serde_json::from_str::<T>(&resp) of the typed helpers
ParsesAs(response, T) ==
    CASE T = "Value" -> ResponseValues[response] # JNone
      [] OTHER -> FALSE

\* The serde_json error of a typed helper returned as it is.
ReadingErrBare(resp) == Err(<<>>, "serde_json::Error", None)

\* The error of a typed helper whose response is not of the caller's type: the
\* serde_json error under the context anyhow!("reading {:?}", resp).
ReadingErr(resp) == Err(<<"reading">>, "serde_json::Error", resp)

\* .and_then(|v| v.as_str()).map(str::to_owned) on the Option of Value::get
as_str(v) == IF v.kind = "str" THEN Some(v.text) ELSE Absent

\* identify treating the "firmware version" field as required.
identify_strict(raw) ==
    IF ~raw.ok
    THEN [ok |-> FALSE,
          err |-> [raw.err EXCEPT !.ctx = <<"requesting FIRMWARE version">> \o @],
          typed |-> NoTyped]
    ELSE IF Member(from_str(raw.value[2]), <<"firmware version">>).kind # "str"
    THEN [ok |-> FALSE, err |-> Err(<<>>, "serde_json::Error", None),
          typed |-> NoTyped]
    ELSE [ok |-> TRUE, err |-> NoErr,
          typed |-> [NoTyped EXCEPT !.kind = "Identity", !.device_id = raw.value[1],
                                    !.firmware_version =
                                        Some(Member(from_str(raw.value[2]),
                                                    <<"firmware version">>).text)]]

\* Client::identify, given what raw_message returned: the error under its
\* context, else the response read as a JSON value (an error when it is none)
\* and the Identity of the reply's device_id and the value's "firmware version"
\* string, if it has one.
identify(raw) ==
    IF ~raw.ok
    THEN [ok |-> FALSE,
          err |-> [raw.err EXCEPT !.ctx = <<"requesting FIRMWARE version">> \o @],
          typed |-> NoTyped]
    ELSE IF ~ParsesAs(raw.value[2], "Value")
    THEN [ok |-> FALSE, err |-> Err(<<>>, "serde_json::Error", None),
          typed |-> NoTyped]
    ELSE [ok |-> TRUE, err |-> NoErr,
          typed |-> [NoTyped EXCEPT
                       !.kind = "Identity", !.device_id = raw.value[1],
                       !.firmware_version =
                           as_str(Member(ResponseValues[raw.value[2]],
                                         <<"firmware version">>))]]

\* What a call returns to its caller, given what raw_message returned to it:
\* raw_message itself, command_void and command_str, identify.
Wrap(call, raw) ==
    CASE call.op = "raw_message" ->
           [ok |-> raw.ok, err |-> raw.err,
            typed |-> IF raw.ok
                      THEN [NoTyped EXCEPT !.kind = "pair", !.device_id = raw.value[1],
                                           !.data = raw.value[2]]
                      ELSE NoTyped]
      [] call.op \in {"command_void", "command_str"} ->
           IF ~raw.ok
           THEN [ok |-> FALSE, err |-> raw.err, typed |-> NoTyped]
           ELSE IF ParsesAs(raw.value[2], call.T)
           THEN [ok |-> TRUE, err |-> NoErr,
                 typed |-> [NoTyped EXCEPT !.kind = call.T, !.data = raw.value[2]]]
           ELSE [ok |-> FALSE,
                 err |-> ReadingErr(raw.value[2]),
                 typed |-> NoTyped]
      [] OTHER -> identify(raw)

\* The calls a caller can make on a Client, with the message each hands to
\* raw_message: raw_message(m), command_void(c), command_str(c, a), identify().
CallsOver(raws, names, args) ==
    {[op |-> "raw_message", command |-> NoText, arg |-> NoText, msg |-> m,
      T |-> None] : m \in raws}
    \cup {[op |-> "command_void", command |-> c, arg |-> NoText,
           msg |-> serialise_void(c), T |-> t] : c \in names, t \in ResultTypes}
    \cup {[op |-> "command_str", command |-> c, arg |-> a,
           msg |-> format_str(c, a), T |-> t] :
            c \in names, a \in args, t \in ResultTypes}
    \cup {[op |-> "identify", command |-> FIRMWARE, arg |-> NoText,
           msg |-> serialise_void(FIRMWARE), T |-> "Value"]}

Calls == CallsOver(RawMsgs, CommandNames, CommandArgs)

\* The calls the codec is run on.
CodecCalls == CallsOver(CodecTexts, CodecTexts, CodecTexts)

\* The COMMANDID of the command a command frame carries, as the hub reads it.
CommandIdOf(frame) ==
    LET inner == from_str(Member(from_str(frame), <<"message">>).text)
        commands == Member(inner, <<"COMMANDS">>)
    IN  Member(commands.items[1].val, <<"COMMANDID">>).num

\* The tokens and messages of the calls of a session built from Tokens.
EnvelopeKeys == Tokens \X {c.msg : c \in Calls}

\* The frame raw_message_inner sends, for each of these tokens and messages.
Envelopes == [k \in EnvelopeKeys |-> Envelope(k[1], k[2])] @@ <<>>

\* `to_send` of raw_message_inner: Envelope, read from Envelopes where it is
\* tabulated.
ToSend(token, msg) ==
    IF <<token, msg>> \in EnvelopeKeys
    THEN Envelopes[<<token, msg>>]
    ELSE Envelope(token, msg)

\* The COMMANDID the hub reads in each of these frames.
CommandIds == [f \in {Envelopes[k] : k \in EnvelopeKeys} |-> CommandIdOf(f)] @@ <<>>

\* The COMMANDID the hub reads in a frame.
Received(frame) ==
    IF frame \in DOMAIN CommandIds THEN CommandIds[frame] ELSE CommandIdOf(frame)

\* The hub receives the command frames written to it and decodes them.
HubReceive(frames) ==
    [i \in 1..Len(frames) |->
        [seq |-> frames[i].seq, command_id |-> Received(frames[i].frame)]]

(* ------------------------------ exchange ------------------------------ *)

\* raw_message taking `&self`: calls may overlap.
BorrowShared == TRUE

\* `&mut self`: a call can start only while no other call borrows the Client.
BorrowFree == active = 0

\* disconnect taking `&mut self`: the caller keeps the Client after it.
HasClientEvenClosed == phase \in {"Connected", "Closed"}

\* A caller holds a Client from the Ok of Builder::connect until disconnect
\* takes it by value.
HasClient == phase = "Connected"

\* A timeout of its own around each suspension point.
DeadlinePerStep == stepStart + client.timeout

\* The tick, counted from the start of the operation, at which its timeout
\* elapses: timeout(self.timeout, ..) wraps the whole of raw_message_inner, and
\* the whole of conn.close in disconnect.
Deadline == client.timeout

\* The timeout wrapped around feed and flush only, the wait for the reply
\* left unbounded.
PendingWritesOnly == pc \in {"feed", "flush"}

\* The inner future cannot go on: a write may be pending whenever the socket
\* takes no more, conn.next() is pending while no frame has come and the
\* stream is open.
Pending ==
    \/ pc \in {"feed", "flush"}
    \/ pc = "recv" /\ inbound = <<>> /\ stream = "open"

\* The call in progress returns w to its caller, raw_message having returned
\* `raw` to it.
Return(raw, w, frame, nreads) ==
    /\ outcome' = [op |-> cur.op, seq |-> cur.seq, arg |-> -1,
                   url |-> NoText, ok |-> w.ok,
                   value |-> raw.value, typed |-> w.typed, err |-> w.err,
                   frame |-> frame, endPc |-> pc, endStream |-> stream,
                   endClose |-> None, total |-> total,
                   stepStart |-> stepStart, fed |-> fed, reads |-> nreads]
    /\ pc' = "idle"
    /\ cur' = NoCall
    /\ active' = active - 1
    /\ fed' = 0
    /\ reads' = 0
    /\ total' = 0
    /\ stepStart' = 0

\* raw_message returns `raw` to the call in progress, which returns to its caller.
Finish(raw, frame, nreads) == Return(raw, Wrap(cur, raw), frame, nreads)

RawErr(err) == [ok |-> FALSE, value |-> NoValue, err |-> err]

\* The Elapsed error turned into the stream's error type.
TimeoutAsTransport ==
    RawErr(Err(<<"timeout sending raw message">>, "tungstenite::Error", None))

\* The Err of raw_message: Elapsed under the context "timeout sending raw message".
TimeoutResult == RawErr(Err(<<"timeout sending raw message">>, "Elapsed", None))

\* A read that leaves the frame at the head of the stream.
Peeked(q) == q

\* The stream after conn.next() has yielded its first frame.
Consumed(q) == Tail(q)

\* raw_message_inner without its flush.
FlushSkipped == "recv"

\* The suspension point that follows a completed feed: the flush.
AfterFeed == "flush"

\* disconnect handing the Client back when it fails.
KeptOnError(ok) == IF ok THEN "Closed" ELSE "Connected"

\* The phase once disconnect has returned `ok`: self was moved into the call
\* and is dropped with it, whatever it returns.
AfterDisconnect(ok) == "Closed"

\* A caller makes one of `calls`.
StartCall(calls) ==
    /\ HasClient
    /\ BorrowFree
    /\ nSeq < MaxExchanges
    /\ \E c \in calls :
         cur' = [seq |-> nSeq + 1, op |-> c.op, command |-> c.command,
                 arg |-> c.arg, msg |-> c.msg, T |-> c.T]
    /\ nSeq' = nSeq + 1
    /\ active' = active + 1
    /\ pc' = "feed"
    /\ total' = 0
    /\ stepStart' = 0
    /\ fed' = 0
    /\ reads' = 0
    /\ outcome' = NoOutcome
    /\ UNCHANGED <<phase, builder, client, connVars, closeState, nJunk, attempts>>

\* A caller calls raw_message, command_void, command_str or identify.
StartExchange == StartCall(Calls)

\* self.conn.feed(Message::Text(to_send)).await?
Feed ==
    /\ pc = "feed"
    /\ \/ /\ sendbuf' = Append(sendbuf, [seq |-> cur.seq,
                                         frame |-> ToSend(client.token, cur.msg)])
          /\ fed' = fed + 1
          /\ pc' = AfterFeed
          /\ stepStart' = total
          /\ UNCHANGED <<cur, active, reads, total, outcome>>
       \/ /\ stream # "open"
          /\ Finish(RawErr(Err(<<>>, "tungstenite::Error", None)), NoFrame, reads)
          /\ UNCHANGED sendbuf
    /\ UNCHANGED <<phase, builder, client, stream, wire, inbound, closeState,
                   nSeq, nJunk, attempts>>

\* self.conn.flush().await? The frames leave the sink for the hub; on a stream
\* that has failed a write either fails or succeeds locally and reaches no one.
Flush ==
    /\ pc = "flush"
    /\ \/ /\ wire' = IF stream = "open" THEN wire \o HubReceive(sendbuf) ELSE wire
          /\ sendbuf' = <<>>
          /\ pc' = "recv"
          /\ stepStart' = total
          /\ UNCHANGED <<cur, active, fed, reads, total, outcome>>
       \/ /\ stream # "open"
          /\ Finish(RawErr(Err(<<>>, "tungstenite::Error", None)), NoFrame, reads)
          /\ UNCHANGED <<sendbuf, wire>>
    /\ UNCHANGED <<phase, builder, client, stream, inbound, closeState, nSeq,
                   nJunk, attempts>>

\* self.conn.next().await and what follows it: the frame is decoded and checked.
Recv ==
    /\ pc = "recv"
    /\ \/ /\ inbound # <<>>
          /\ LET f == Head(inbound)
             IN  Finish(IF ~f.parses
                        THEN RawErr(Err(<<"JSON-deserializing response">>,
                                        "serde_json::Error", None))
                        ELSE IF ~Accepts(f)
                        THEN RawErr(Err(<<>>, "unexpected response type or id", f))
                        ELSE [ok |-> TRUE, value |-> <<f.device_id, f.response>>,
                              err |-> NoErr],
                        f, reads + 1)
          /\ inbound' = Consumed(inbound)
       \/ /\ inbound = <<>>
          /\ stream = "failed"
          /\ \/ Finish(RawErr(Err(<<>>, "no response received to command", None)),
                       NoFrame, reads)
             \/ Finish(RawErr(Err(<<"unpacking websocket message">>,
                                  "tungstenite::Error", None)), NoFrame, reads)
          /\ UNCHANGED inbound
    /\ UNCHANGED <<phase, builder, client, stream, sendbuf, wire, closeState,
                   nSeq, nJunk, attempts>>

\* The timeout of raw_message elapses with the inner future pending: the inner
\* future is dropped where it stands and the Elapsed error is returned.
ExchangeTimeout ==
    /\ pc # "idle"
    /\ total = Deadline
    /\ Pending
    /\ Finish(TimeoutResult, NoFrame, reads)
    /\ UNCHANGED <<phase, builder, client, connVars, closeState, nSeq, nJunk,
                   attempts>>

\* Time passes while a timeout-bounded operation is in progress.
Tick ==
    /\ pc # "idle" \/ phase = "Closing"
    /\ total < Deadline
    /\ total' = total + TickSecs
    /\ UNCHANGED <<phase, builder, client, connVars, callVars, stepStart,
                   closeState, nSeq, nJunk, attempts, outcome>>

(* ----------------------------- disconnect ----------------------------- *)

\* Client::disconnect(mut self) is called: the Client moves into the call, so
\* no exchange reads or writes its connection again and the frames still queued
\* on it are never looked at.
StartDisconnect ==
    /\ HasClient
    /\ BorrowFree
    /\ phase' = "Closing"
    /\ closeState' = "pending"
    /\ total' = 0
    /\ stepStart' = 0
    /\ sendbuf' = <<>>
    /\ wire' = <<>>
    /\ inbound' = <<>>
    /\ outcome' = NoOutcome
    /\ UNCHANGED <<builder, client, stream, callVars, nSeq, nJunk, attempts>>

DisconnectOutcome(ok, err) ==
    [NoOutcome EXCEPT !.op = "disconnect", !.ok = ok, !.err = err,
                      !.endClose = closeState, !.endStream = stream,
                      !.total = total]

\* self.conn.close(None) completes within the timeout, with Ok or the stream's
\* error; the Client, and the stream it owns, is dropped as the call returns.
DisconnectDone ==
    /\ phase = "Closing"
    /\ closeState \in {"ok", "err"}
    /\ outcome' = IF closeState = "ok"
                  THEN DisconnectOutcome(TRUE, NoErr)
                  ELSE DisconnectOutcome(FALSE, Err(<<>>, "tungstenite::Error", None))
    /\ phase' = AfterDisconnect(closeState = "ok")
    /\ total' = 0
    /\ stream' = "none"
    /\ sendbuf' = <<>>
    /\ wire' = <<>>
    /\ inbound' = <<>>
    /\ closeState' = "idle"
    /\ UNCHANGED <<builder, client, callVars, stepStart, nSeq, nJunk, attempts>>

\* The timeout of disconnect elapses with conn.close still pending.
DisconnectTimeout ==
    /\ phase = "Closing"
    /\ closeState = "pending"
    /\ total = Deadline
    /\ outcome' = DisconnectOutcome(FALSE, Err(<<"timeout disconnecting">>,
                                               "Elapsed", None))
    /\ phase' = AfterDisconnect(FALSE)
    /\ total' = 0
    /\ stream' = "none"
    /\ sendbuf' = <<>>
    /\ wire' = <<>>
    /\ inbound' = <<>>
    /\ closeState' = "idle"
    /\ UNCHANGED <<builder, client, callVars, stepStart, nSeq, nJunk, attempts>>

(* ------------------------ the hub and the network --------------------- *)

\* The reply of the hub to a command: it carries the command's COMMANDID.
HubReplyFrame(cmd, device, response) ==
    [parses |-> TRUE, command_id |-> cmd.command_id,
     device_id |-> device, message_type |-> ExpectedType,
     response |-> response, replyTo |-> cmd.seq]

\* Frames that answer no command: text that is no CommandResponse (or a ping or
\* close message, whose data is no JSON), another message_type, another command_id.
JunkFrames ==
    {[NoFrame EXCEPT !.replyTo = 0]}
    \cup {[parses |-> TRUE, command_id |-> i, device_id |-> d,
           message_type |-> t, response |-> NoFwResponse, replyTo |-> 0] :
            i \in {ExpectedCommandId, ExpectedCommandId + 1}, d \in DeviceIds,
            t \in {OtherType}}
    \cup {[parses |-> TRUE, command_id |-> ExpectedCommandId + 1, device_id |-> d,
           message_type |-> ExpectedType, response |-> NoFwResponse,
           replyTo |-> 0] :
            d \in DeviceIds}

\* The hub answers the oldest unanswered command and the reply reaches the client.
HubReply ==
    /\ phase = "Connected"
    /\ stream = "open"
    /\ wire # <<>>
    /\ \E d \in DeviceIds, r \in Responses :
         inbound' = Append(inbound, HubReplyFrame(Head(wire), d, r))
    /\ wire' = Tail(wire)
    /\ outcome' = NoOutcome
    /\ UNCHANGED <<phase, builder, client, stream, sendbuf, callVars, clockVars,
                   closeState, nSeq, nJunk, attempts>>

\* A frame that answers no command reaches the client.
HubJunk ==
    /\ phase = "Connected"
    /\ stream = "open"
    /\ nJunk < MaxJunk
    /\ \E f \in JunkFrames : inbound' = Append(inbound, f)
    /\ nJunk' = nJunk + 1
    /\ outcome' = NoOutcome
    /\ UNCHANGED <<phase, builder, client, stream, sendbuf, wire, callVars,
                   clockVars, closeState, nSeq, attempts>>

\* The stream ends or breaks: from now on next() yields None or an error once
\* the frames already received are read, a write may fail, and the commands
\* the hub has not answered yet stay unanswered.
StreamFail ==
    /\ phase = "Connected"
    /\ stream = "open"
    /\ stream' = "failed"
    /\ wire' = <<>>
    /\ outcome' = NoOutcome
    /\ UNCHANGED <<phase, builder, client, sendbuf, inbound, callVars,
                   clockVars, closeState, nSeq, nJunk, attempts>>

\* The close handshake completes, or fails, on the stream.
CloseResolve ==
    /\ phase = "Closing"
    /\ closeState = "pending"
    /\ closeState' \in {"ok", "err"}
    /\ UNCHANGED <<phase, builder, client, connVars, callVars, clockVars, nSeq,
                   nJunk, attempts, outcome>>

(* --------------------------- specification ---------------------------- *)

Next ==
    \/ Build
    \/ FromEnv
    \/ BuilderTimeout
    \/ ConnectOk
    \/ ConnectFail
    \/ StartExchange
    \/ Feed
    \/ Flush
    \/ Recv
    \/ ExchangeTimeout
    \/ Tick
    \/ StartDisconnect
    \/ DisconnectDone
    \/ DisconnectTimeout
    \/ HubReply
    \/ HubJunk
    \/ StreamFail
    \/ CloseResolve

Spec == Init /\ [][Next]_vars

\* The client's task is polled whenever it can go on, and the runtime's clock
\* runs: the timer of tokio::time::timeout fires once its deadline is reached.
Poll == Feed \/ Flush \/ Recv \/ ExchangeTimeout \/ DisconnectDone \/ DisconnectTimeout

FairSpec == Spec /\ WF_vars(Tick) /\ WF_vars(Poll)

(* ------------------- specification of the envelope codec --------------- *)

\* A session connected with any token of CodecTexts.
CodecInit ==
    /\ phase = "Connected"
    /\ builder = NoBuilder
    /\ client \in [token : CodecTexts, timeout : {DefaultTimeout}]
    /\ stream = "open"
    /\ sendbuf = <<>>
    /\ wire = <<>>
    /\ inbound = <<>>
    /\ pc = "idle"
    /\ cur = NoCall
    /\ active = 0
    /\ total = 0
    /\ stepStart = 0
    /\ fed = 0
    /\ reads = 0
    /\ closeState = "idle"
    /\ nSeq = 0
    /\ nJunk = 0
    /\ attempts = 1
    /\ outcome = [NoOutcome EXCEPT !.op = "connect", !.ok = TRUE]

\* A caller calls raw_message, command_void or command_str with any texts of
\* CodecTexts, or identify.
CodecStart == StartCall(CodecCalls)

\* The calls are encoded and fed to the sink.
CodecNext ==
    \/ CodecStart
    \/ Feed
    \/ StreamFail

CodecSpec == CodecInit /\ [][CodecNext]_vars

(* ------------------------------ claims -------------------------------- *)

\* The class of an error value, read off the error at the root of its chain:
\* timeout (Elapsed), transport (the stream's own error, or its end), protocol
\* (the reply does not decode, or is not the expected reply), payload (the
\* response is not of the caller's type), configuration.
ErrorClass(err) ==
    CASE err.src = "Elapsed" -> "timeout"
      [] err.src \in {"tungstenite::Error", "no response received to command"} ->
           "transport"
      [] err.src = "unexpected response type or id" -> "protocol"
      [] err.src = "serde_json::Error" /\ err.ctx = <<"JSON-deserializing response">> ->
           "protocol"
      [] err.src = "serde_json::Error" /\ err.ctx = <<"requesting FIRMWARE version",
                                                      "JSON-deserializing response">> ->
           "protocol"
      [] err.src = "serde_json::Error" -> "payload"
      [] err.src = "VarError" -> "configuration"
      [] OTHER -> "none"

ExchangeOps == {"raw_message", "command_void", "command_str", "identify"}

\* The last operation that returned was an exchange (raw_message, or a helper
\* that called it).
ExchangeEnded == outcome.op \in ExchangeOps

\* raw_message returned Ok((device_id, response)).
ReturnedPair == ExchangeEnded /\ outcome.value # NoValue

InExchange == pc # "idle"

\* C1 as stated: every exchange in which no inbound frame came before the
\* timeout elapsed ended with a timeout-classified error and returned no pair.
C1_NoFrameIsTimeout ==
    (ExchangeEnded /\ outcome.reads = 0) =>
        /\ ErrorClass(outcome.err) = "timeout"
        /\ outcome.value = NoValue

\* C1, amended: every exchange in which no inbound frame came and the stream
\* neither ended nor failed before the timeout elapsed ended with a
\* timeout-classified error, at the deadline, and returned no pair; and every
\* exchange ends.
C1_SilentOpenStreamIsTimeout ==
    /\ [](  (ExchangeEnded /\ outcome.reads = 0 /\ outcome.endStream = "open") =>
               /\ ~outcome.ok
               /\ ErrorClass(outcome.err) = "timeout"
               /\ outcome.value = NoValue
               /\ outcome.total = client.timeout)
    /\ [](ReturnedPair => outcome.reads = 1)
    /\ (InExchange ~> ~InExchange)

C1_Witness ==
    /\ ExchangeEnded
    /\ outcome.reads = 0
    /\ outcome.endStream = "open"
    /\ outcome.endPc = "recv"
    /\ ErrorClass(outcome.err) = "timeout"

\* C2: the pair a successful exchange returns is the hub's reply to the command
\* this exchange sent.
C2_ReplyIsToOwnCommand ==
    ReturnedPair => outcome.frame.replyTo = outcome.seq

\* C3: a reply that decodes and whose message_type is not
\* "hm_set_command_response" makes the exchange fail, whatever its command_id.
C3_WrongTypeRejected ==
    (ExchangeEnded /\ outcome.reads = 1 /\ outcome.frame.parses
        /\ outcome.frame.message_type # ExpectedType) =>
        /\ ~outcome.ok
        /\ outcome.value = NoValue
        /\ outcome.typed = NoTyped
        /\ outcome.err # NoErr

C3_Witness ==
    /\ ExchangeEnded
    /\ outcome.reads = 1
    /\ outcome.frame.parses
    /\ outcome.frame.message_type # ExpectedType
    /\ outcome.frame.command_id = 1
    /\ ~outcome.ok

\* C4: a reply of message_type "hm_set_command_response" whose command_id is
\* not 1 makes the exchange fail.
C4_WrongIdRejected ==
    (ExchangeEnded /\ outcome.reads = 1 /\ outcome.frame.parses
        /\ outcome.frame.message_type = ExpectedType
        /\ outcome.frame.command_id # 1) =>
        /\ ~outcome.ok
        /\ outcome.value = NoValue
        /\ outcome.typed = NoTyped
        /\ outcome.err # NoErr

C4_Witness ==
    /\ ExchangeEnded
    /\ outcome.reads = 1
    /\ outcome.frame.parses
    /\ outcome.frame.message_type = ExpectedType
    /\ outcome.frame.command_id # 1
    /\ ~outcome.ok

\* The phase changes the lifecycle allows.
AllowedPhaseChanges ==
    {<<"Start", "Unconnected">>, <<"Unconnected", "Connected">>,
     <<"Unconnected", "Failed">>, <<"Connected", "Closing">>,
     <<"Closing", "Closed">>}

\* C5: a session is Connected only after a successful connect of a Builder,
\* disconnect leads to Closed, Closed is never left, and a step of an exchange
\* (of raw_message or a typed helper or identify) or a call of disconnect is
\* taken only on a Connected session.
C5_Lifecycle ==
    [][ /\ (phase' # phase => <<phase, phase'>> \in AllowedPhaseChanges)
        /\ (phase' = "Connected" /\ phase # "Connected" =>
               /\ phase = "Unconnected"
               /\ outcome'.op = "connect"
               /\ outcome'.ok)
        /\ (pc # "idle" \/ pc' # "idle" => phase = "Connected" /\ phase' = "Connected")
        /\ (phase' = "Closing" => phase \in {"Connected", "Closing"})
        /\ (phase = "Closed" => phase' = "Closed" /\ pc' = "idle" /\ nSeq' = nSeq
                                   /\ UNCHANGED connVars)
      ]_vars

C5_Witness ==
    /\ phase = "Closed"
    /\ nSeq >= 1
    /\ outcome.op = "disconnect"
    /\ outcome.ok

\* The command frames written so far and not yet answered.
Written == sendbuf \o wire

\* C6: at most one exchange is in progress on a session, it is the one started
\* last, and no command frame of a later exchange is written before it ends.
C6_OneExchangeAtATime ==
    /\ active <= 1
    /\ InExchange => active = 1 /\ cur.seq = nSeq
    /\ ~InExchange => active = 0
    /\ \A i \in 1..Len(Written) :
         /\ Written[i].seq <= nSeq
         /\ \A j \in 1..Len(Written) : Written[i].seq = Written[j].seq => i = j
    /\ pc = "feed" => \A i \in 1..Len(Written) : Written[i].seq < cur.seq

C6_Witness ==
    /\ nSeq = 2
    /\ active = 1
    /\ pc = "flush"
    /\ fed = 1

\* The command frame of the exchange in progress is still in the sink.
OwnFrameUnflushed == \E i \in 1..Len(sendbuf) : sendbuf[i].seq = cur.seq

\* C7: an exchange feeds exactly one command frame, flushes it before it awaits
\* the reply, reads no inbound frame before that, and takes exactly one inbound
\* frame as its reply.
C7_WriteFlushThenRead ==
    /\ pc = "feed" => fed = 0 /\ reads = 0
    /\ pc = "flush" => fed = 1 /\ reads = 0 /\ OwnFrameUnflushed
    /\ pc = "recv" => fed = 1 /\ reads = 0 /\ ~OwnFrameUnflushed
    /\ ExchangeEnded =>
         /\ outcome.fed <= 1
         /\ outcome.reads <= 1
         /\ outcome.reads = 1 => outcome.fed = 1 /\ outcome.endPc = "recv"
         /\ outcome.reads = 1 <=> outcome.frame # NoFrame
         /\ outcome.value # NoValue => outcome.reads = 1

C7_Witness ==
    /\ ExchangeEnded
    /\ outcome.ok
    /\ outcome.fed = 1
    /\ outcome.reads = 1
    /\ outcome.endPc = "recv"

\* C8: the timeout of an exchange is one budget counted from its start: no
\* exchange is in progress, or ends, later than the session's timeout after it
\* began, however the time was spent over feed, flush and the wait; and a
\* timeout error is returned exactly when that budget is used up.
C8_OneBudget ==
    /\ InExchange => total <= client.timeout /\ stepStart <= total
    /\ ExchangeEnded =>
         /\ outcome.total <= client.timeout
         /\ ErrorClass(outcome.err) = "timeout" => outcome.total = client.timeout

C8_Witness ==
    /\ ExchangeEnded
    /\ ErrorClass(outcome.err) = "timeout"
    /\ outcome.endPc = "recv"
    /\ 0 < outcome.stepStart
    /\ outcome.stepStart < client.timeout
    /\ outcome.total = client.timeout

DisconnectEnded == outcome.op = "disconnect"

\* C9: disconnect ends within the session's timeout: with Ok when the close
\* completed, with the stream's error when it failed, with a timeout error when
\* it was still pending as the timeout elapsed; whichever it is, the session is
\* Closed and its stream dropped.
C9_DisconnectBounded ==
    /\ [](phase = "Closing" => total <= client.timeout)
    /\ [](DisconnectEnded =>
            /\ phase = "Closed"
            /\ pc = "idle"
            /\ stream = "none"
            /\ outcome.total <= client.timeout
            /\ outcome.ok <=> outcome.endClose = "ok"
            /\ ErrorClass(outcome.err) = "transport" <=> outcome.endClose = "err"
            /\ ErrorClass(outcome.err) = "timeout" <=>
                  outcome.endClose = "pending" /\ outcome.total = client.timeout
            /\ outcome.endClose \in {"ok", "err", "pending"})
    /\ (phase = "Closing" ~> phase = "Closed")

C9_Witness ==
    /\ DisconnectEnded
    /\ phase = "Closed"
    /\ ErrorClass(outcome.err) = "timeout"
    /\ outcome.total > 0

\* raw_message returned an error.
ExchangeFailed == ExchangeEnded /\ outcome.value = NoValue

\* C10: a failed exchange has one error class, the one of its cause: timeout
\* when the budget ran out with the exchange pending, transport when the stream
\* had ended or failed, protocol when the frame read does not decode or is not
\* the expected reply.
C10_ClassFollowsCause ==
    ExchangeFailed =>
        LET c == ErrorClass(outcome.err)
            f == outcome.frame
        IN  /\ ~outcome.ok
            /\ c \in {"timeout", "transport", "protocol"}
            /\ c = "timeout" =>
                 /\ outcome.reads = 0
                 /\ outcome.total = client.timeout
                 /\ outcome.endPc = "recv" => outcome.endStream = "open"
            /\ c = "transport" => outcome.reads = 0 /\ outcome.endStream # "open"
            /\ c = "protocol" <=> outcome.reads = 1
            /\ outcome.reads = 1 =>
                 \/ ~f.parses
                 \/ f.message_type # ExpectedType
                 \/ f.command_id # 1
            /\ outcome.reads = 0 /\ outcome.endStream = "open" => c = "timeout"
            /\ outcome.reads = 0 /\ outcome.endPc = "recv"
                  /\ outcome.endStream # "open" => c = "transport"

C10_Witness ==
    /\ ExchangeFailed
    /\ ErrorClass(outcome.err) = "transport"
    /\ outcome.endPc = "recv"
    /\ outcome.endStream = "failed"
    /\ outcome.err.src = "no response received to command"
    /\ outcome.total > 0

\* The error names the frame f it rejected: the ensure! of raw_message_inner
\* formats the whole decoded reply into its message.
CarriesFrame(err, f) ==
    err.src = "unexpected response type or id" /\ err.payload = f

\* C11: an exchange that read a frame and returned no pair (the frame did not
\* decode, or decoded with another message_type or command_id) failed with an
\* error that holds the frame it received.
C11_ProtocolErrorCarriesPayload ==
    (ExchangeEnded /\ outcome.reads = 1 /\ outcome.value = NoValue) =>
        /\ ~outcome.ok
        /\ ErrorClass(outcome.err) = "protocol"
        /\ CarriesFrame(outcome.err, outcome.frame)

\* C12: nothing is retried: a session's Builder makes at most one connection
\* attempt and a failed one is returned to the caller; an exchange feeds at
\* most one frame and reads at most one, whatever its outcome; the frames
\* written never outnumber the calls made; and a failed exchange has returned
\* its error, no step of it being left to run.
C12_NoRetries ==
    /\ attempts <= 1
    /\ outcome.op = "connect" =>
         /\ attempts = 1
         /\ outcome.ok <=> phase = "Connected"
         /\ ~outcome.ok => phase = "Failed" /\ outcome.err # NoErr /\ stream = "none"
    /\ Len(Written) <= nSeq
    /\ InExchange => fed <= 1 /\ reads = 0
    /\ ExchangeEnded =>
         /\ outcome.fed <= 1
         /\ outcome.reads <= 1
         /\ pc = "idle" /\ active = 0
         /\ ~outcome.ok => outcome.err # NoErr /\ outcome.typed = NoTyped

C12_Witness ==
    /\ ExchangeEnded
    /\ ~outcome.ok
    /\ outcome.fed = 1
    /\ outcome.reads = 1
    /\ attempts = 1
    /\ nSeq = 2

\* No connection was attempted and no stream exists.
NoNetworkActivity ==
    /\ attempts = 0
    /\ stream = "none"
    /\ sendbuf = <<>> /\ wire = <<>> /\ inbound = <<>>
    /\ client = NoClient

\* C13: for every environment in which NEOHUB_URL or NEOHUB_TOKEN is missing,
\* from_env returns a configuration error, naming a missing variable, and no
\* Builder; an environment holding both gives a Builder; and when from_env has
\* failed there is no Builder to connect with and nothing has touched the
\* network.
C13_FromEnvFailsFast ==
    /\ \A u \in EnvUrls, t \in EnvTokens :
         LET r == from_env(u, t)
         IN  /\ r.ok <=> (u # Missing /\ t # Missing)
             /\ ~r.ok =>
                  /\ r.builder = NoBuilder
                  /\ ErrorClass(r.err) = "configuration"
                  /\ r.err.ctx[2] = (IF u = Missing THEN "NEOHUB_URL" ELSE "NEOHUB_TOKEN")
             /\ r.ok => r.builder = build(u.text, t.text)
    /\ (outcome.op = "from_env" /\ ~outcome.ok) =>
         /\ phase = "Start"
         /\ builder = NoBuilder
         /\ ErrorClass(outcome.err) = "configuration"
         /\ NoNetworkActivity
    /\ phase \in {"Start", "Unconnected"} => NoNetworkActivity

C13_Witness ==
    /\ outcome.op = "from_env"
    /\ ~outcome.ok
    /\ outcome.err.ctx = <<"env var required", "NEOHUB_TOKEN">>
    /\ phase = "Start"

\* identify read a reply that passes the ensure! and whose response is a JSON
\* value without a "firmware version" field.
IdentifyWithoutFirmware ==
    /\ outcome.op = "identify"
    /\ outcome.reads = 1
    /\ outcome.frame.parses
    /\ outcome.frame.message_type = ExpectedType
    /\ outcome.frame.command_id = 1
    /\ from_str(outcome.frame.response).kind = "obj"
    /\ Member(from_str(outcome.frame.response), <<"firmware version">>) = JNone

\* C14: identify on a valid reply whose response has no "firmware version"
\* field returns Ok with an Identity of the reply's device_id and no
\* firmware_version, and no error.
C14_IdentifyWithoutFirmware ==
    IdentifyWithoutFirmware =>
        /\ outcome.ok
        /\ outcome.err = NoErr
        /\ outcome.typed.kind = "Identity"
        /\ outcome.typed.device_id = outcome.frame.device_id
        /\ outcome.typed.firmware_version = Absent

C14_Witness ==
    /\ IdentifyWithoutFirmware
    /\ outcome.ok
    /\ outcome.typed.device_id \in DeviceIds

\* The exchange in progress has encoded its command and fed the frame.
FrameFed == pc = "flush" /\ sendbuf # <<>>

\* The frame the exchange in progress fed, and what a receiver decodes from it:
\* the outer envelope, its message member, the value of the message's text,
\* and the one command of its COMMANDS.
FedFrame == sendbuf[Len(sendbuf)].frame
FedOuter == from_str(FedFrame)
FedMessage == Member(FedOuter, <<"message">>)
FedInner == from_str(FedMessage.text)
FedCommands == Member(FedInner, <<"COMMANDS">>)
FedCommand == FedCommands.items[1].val

\* C15: for every token and command text, the frame fed is the JSON text of an
\* object of exactly message_type "hm_get_command_queue" and message, message
\* is a string, and the value of that string is an object of exactly the
\* session's token and a COMMANDS array of one object, whose COMMAND is the
\* string handed to raw_message and whose COMMANDID is 1.
C15_EnvelopeRoundTrip ==
    FrameFed =>
        /\ FedOuter.kind = "obj"
        /\ Len(FedOuter.items) = 2
        /\ Member(FedOuter, <<"message_type">>) = JStr(<<OutboundType>>)
        /\ FedMessage.kind = "str"
        /\ FedInner.kind = "obj"
        /\ Len(FedInner.items) = 2
        /\ Member(FedInner, <<"token">>) = JStr(client.token)
        /\ FedCommands.kind = "arr"
        /\ Len(FedCommands.items) = 1
        /\ FedCommand.kind = "obj"
        /\ Len(FedCommand.items) = 2
        /\ Member(FedCommand, <<"COMMAND">>) = JStr(cur.msg)
        /\ Member(FedCommand, <<"COMMANDID">>) = JNum(1)

C15_Witness ==
    /\ FrameFed
    /\ cur.op = "raw_message"
    /\ client.token = <<QUOTE>>
    /\ cur.msg = <<BACKSLASH>>
    /\ Member(FedInner, <<"token">>).text = <<QUOTE>>

\* The COMMAND of the frame fed, read as a JSON value: the member itself when
\* it is an object, the value of its text when it is a string.
FedCommandValue ==
    LET c == Member(FedCommand, <<"COMMAND">>)
    IN  IF c.kind = "str" THEN from_str(c.text) ELSE c

\* C16: the frame command_void(N) feeds has, in its decoded inner message, a
\* COMMAND that is the JSON object {"N":0}.
C16_VoidIsObjectOfZero ==
    (FrameFed /\ cur.op = "command_void") =>
        FedCommandValue = JObj(<<Item(cur.command, JNum(0))>>)

\* C17: the frame command_str(N, A) feeds has a COMMAND that is valid JSON, the
\* object pairing N with the string A, whatever quote characters N and A hold.
C17_StrIsValidJson ==
    (FrameFed /\ cur.op = "command_str") =>
        FedCommandValue = JObj(<<Item(cur.command, JStr(cur.arg))>>)

\* C18: the pair raw_message returns is the device_id and the response text of
\* the frame it read, as they came; command_void and command_str return that
\* response read as the caller's type and, when it is not of that type, fail
\* with a payload error that holds the response text, and return no value.
C18_RawPairAndTypedDecode ==
    ReturnedPair =>
        /\ outcome.reads = 1
        /\ outcome.value = <<outcome.frame.device_id, outcome.frame.response>>
        /\ outcome.op = "raw_message" =>
             /\ outcome.ok
             /\ outcome.typed.kind = "pair"
             /\ outcome.typed.device_id = outcome.frame.device_id
             /\ outcome.typed.data = outcome.frame.response
        /\ outcome.op \in {"command_void", "command_str"} =>
             IF from_str(outcome.frame.response) # JNone
             THEN /\ outcome.ok
                  /\ outcome.typed.kind = "Value"
                  /\ outcome.typed.data = outcome.frame.response
             ELSE /\ ~outcome.ok
                  /\ outcome.typed = NoTyped
                  /\ ErrorClass(outcome.err) = "payload"
                  /\ outcome.err.ctx = <<"reading">>
                  /\ outcome.err.payload = outcome.frame.response

C18_Witness ==
    /\ ReturnedPair
    /\ outcome.op = "command_void"
    /\ ~outcome.ok
    /\ outcome.frame.response = NotJsonResponse
    /\ outcome.err.ctx = <<"reading">>

\* C19: a Builder starts with the timeout of 15 seconds; Builder::timeout sets
\* the timeout to the value it is given and leaves URL and token as they are;
\* connect opens the Builder's URL and gives the Client the Builder's token and
\* timeout; and from then on no step of an exchange, of identify or of
\* disconnect changes the Client's token or timeout.
C19_TimeoutConfigured ==
    /\ [](outcome.op \in {"build", "from_env"} /\ outcome.ok =>
             phase = "Unconnected" /\ builder.timeout = DefaultTimeout
             /\ DefaultTimeout = 15)
    /\ [][ /\ (phase = "Unconnected" /\ phase' = "Unconnected" =>
                /\ outcome'.op = "timeout"
                /\ outcome'.arg \in TimeoutArgs
                /\ builder' = [url |-> builder.url, token |-> builder.token,
                               timeout |-> outcome'.arg])
           /\ (phase = "Unconnected" /\ phase' = "Connected" =>
                /\ outcome'.url = builder.url
                /\ client' = [token |-> builder.token, timeout |-> builder.timeout])
           /\ (phase \in {"Connected", "Closing", "Closed"} => client' = client)
           /\ (phase \in {"Start", "Unconnected"} => client' = NoClient \/ phase' = "Connected")
         ]_vars

C19_Witness ==
    /\ phase = "Connected"
    /\ outcome.op = "connect"
    /\ client.timeout = TickSecs
    /\ client.token \in Tokens

\* C20: an exchange that ends with an error leaves the session in Connected,
\* with no exchange in progress, so that a further exchange can start; and a
\* frame that an exchange read and rejected is the frame that was at the head
\* of the stream and is no longer in the stream afterwards.
C20_FailureKeepsSession ==
    /\ [](ExchangeEnded /\ ~outcome.ok =>
             /\ phase = "Connected"
             /\ HasClient
             /\ BorrowFree
             /\ pc = "idle"
             /\ stream = outcome.endStream)
    /\ [][ (pc = "recv" /\ pc' = "idle" /\ outcome'.reads = 1
              /\ outcome'.value = NoValue) =>
                /\ inbound # <<>>
                /\ outcome'.frame = Head(inbound)
                /\ inbound' = Tail(inbound)
                /\ phase' = "Connected"
         ]_vars

C20_Witness ==
    /\ ExchangeEnded
    /\ outcome.seq = 2
    /\ outcome.reads = 1
    /\ ErrorClass(outcome.err) = "protocol"
    /\ phase = "Connected"
    /\ stream = "open"

====
